---- MODULE Spec2Model ----
(***************************************************************************)
(* A model of tplay's concurrent playback engine: the Terminal, the        *)
(* message Broker, the Pipeline runner (frame source + image pipeline) and *)
(* the Audio runner, connected by crossbeam channels and released by a     *)
(* start barrier.                                                          *)
(*                                                                         *)
(* Option<T> is a sequence of length at most one: None is <<>> and Some(x) *)
(* is <<x>>.  A control message is a record [op, a, b]; a and b are the    *)
(* arguments of the variant (0 where it has none, SetGrayscale's bool is   *)
(* 1/0).                                                                   *)
(***************************************************************************)
EXTENDS Integers, Sequences, FiniteSets, TLC

\* ------------------------------------------------------------- bounds

\* Number of input events the user produces in a run.
MaxEvents == 2
\* Args.fps: default_value = "60.0".
DefaultFps == 60
\* Ticks of the model's clock in one second (the code counts nanoseconds).
TicksPerSecond == 60
\* The clock stops at MaxTime ticks.
MaxTime == 130
\* Number of frames of the source media (video length, animated list).
NumFrames == 2
\* Largest frames_to_skip the frame-time gate reports.
MaxSkip == 1
\* Longest pre-queued control sequence of the component specifications.
MaxQueue == 3
\* Width and height of the decoded source images.
SrcW == 2
SrcH == 2
\* Largest user-configured character map length tried by the glyph lookup.
MaxUserMapLen == 3

\* ------------------------------------------------------ program constants

\* main.rs: const DEFAULT_TERMINAL_SIZE
DEFAULT_TERMINAL_SIZE == <<80, 24>>
\* runner.rs init: the vec! of registered character maps has ten entries.
NumCharMaps == 10
\* image_pipeline.rs to_ascii: u8::MAX as usize + 1
LumLevels == 256
\* crossbeam bounded::<Option<StringInfo>>(1)
FramesCap == 1

None == <<>>
Some(x) == <<x>>

\* Lengths of the registered character maps, in the order of runner.rs init:
\* the configured map (default CHARS1), CHARS1, CHARS2, CHARS3, SOLID, DOTTED,
\* GRADIENT, BLACKWHITE, BW_DOTTED, BRAILLE.
CharMapLens == <<10, 10, 67, 92, 1, 1, 5, 2, 2, 18>>

\* ------------------------------------------------------------ messages

Msg(op, a, b) == [op |-> op, a |-> a, b |-> b]
PauseContinue == Msg("PauseContinue", 0, 0)
Exit == Msg("Exit", 0, 0)
MuteUnmute == Msg("MuteUnmute", 0, 0)
Replay == Msg("Replay", 0, 0)
SetCharMap(k) == Msg("SetCharMap", k, 0)
Resize(w, h) == Msg("Resize", w, h)
SetGrayscale(b) == Msg("SetGrayscale", IF b THEN 1 ELSE 0, 0)

\* The size terminal::size() reports at start: cols, rows.
TtyProbe == <<2, 1>>
\* The sizes of the resize events tried.
TtySizes == {<<1, 2>>}
\* Sizes tried on the control channels.
CtlSizes == {TtyProbe} \cup TtySizes
\* Digit keys tried.
Digits == {4}
\* Character-map numbers tried on the pipeline's control channel.
MapNumbers == {4, 14}

\* msg/broker.rs: enum Control
MediaControl ==
    {PauseContinue, Exit, MuteUnmute}
        \cup {SetCharMap(k) : k \in Digits}
        \cup {Resize(s[1], s[2]) : s \in CtlSizes}
        \cup {SetGrayscale(b) : b \in BOOLEAN}

\* pipeline/runner.rs: enum Control
PipelineControl ==
    {PauseContinue, Exit}
        \cup {SetCharMap(k) : k \in MapNumbers}
        \cup {Resize(s[1], s[2]) : s \in CtlSizes}
        \cup {SetGrayscale(b) : b \in {TRUE}}

\* The amounts of time, in ticks, that pass in one step of the clock.
ClockSteps == {1, 20}

\* Sequences over S of length at most n.
RECURSIVE SeqsUpTo(_, _)
SeqsUpTo(S, n) ==
    IF n = 0 THEN {<<>>}
    ELSE LET shorter == SeqsUpTo(S, n - 1)
         IN shorter \cup {Append(q, x) : q \in {s \in shorter : Len(s) = n - 1}, x \in S}

\* ------------------------------------------------------ image pipeline

\* The decoded source frame number f: an RGB image of SrcW x SrcH pixels.
\* Pixel (x, y) of frame f, as an <<r, g, b>> triple of bytes.
PixelAt(f, x, y) ==
    <<(f * 97 + x * 61 + y * 13) % 256,
      (f * 31 + x * 17 + y * 101) % 256,
      (f * 53 + x * 7 + y * 43) % 256>>

\* fast_image_resize, ResizeAlg::Nearest: the source pixel under the centre
\* of destination pixel (x, y) of a W x H destination.
NearestSrc(x, srcLen, dstLen) == ((2 * x + 1) * srcLen) \div (2 * dstLen)

\* A resize that checks the source image only.
ResizeOk_SourceOnly(srcW, srcH, tr) == srcW # 0 /\ srcH # 0

\* ImagePipeline::resize: an error (FALSE) when the source image or the
\* target resolution has a zero dimension.
ResizeOk(srcW, srcH, tr) == srcW # 0 /\ srcH # 0 /\ tr[1] # 0 /\ tr[2] # 0

ResizedPixel(f, tr, x, y) ==
    PixelAt(f, NearestSrc(x, SrcW, tr[1]), NearestSrc(y, SrcH, tr[2]))

\* image crate, into_luma8: Rec. 709 luma of an RGB pixel.
Luma(p) == (2126 * p[1] + 7152 * p[2] + 722 * p[3]) \div 10000

\* to_ascii: self.char_map.len() * lum / (u8::MAX + 1)
LookupIdx_Div255(k, lum) == (k * lum) \div (LumLevels - 1)
LookupIdx(k, lum) == (k * lum) \div LumLevels

\* A glyph is <<map number, index into that map>>; LineTerminator is the
\* glyph a '\n' would be.
LineTerminator == <<-1, 0>>

RECURSIVE AsciiRows(_, _, _, _)
AsciiRows(f, tr, cm, y) ==
    IF y = tr[2] THEN <<>>
    ELSE [x \in 1..tr[1] |->
            <<cm, LookupIdx(CharMapLens[cm + 1], Luma(ResizedPixel(f, tr, x - 1, y)))>>]
         \o AsciiRows(f, tr, cm, y + 1)

\* ImagePipeline::to_ascii on the resized frame.
to_ascii(f, tr, cm) == AsciiRows(f, tr, cm, 0)

\* procimage.into_rgb8().to_vec(): the pixels' bytes in row-major order;
\* with new_lines, process_frame appends six zero bytes after every row.
RECURSIVE RgbRows(_, _, _, _)
RgbRows(f, tr, nl, i) ==
    IF i = tr[1] * tr[2] THEN <<>>
    ELSE ResizedPixel(f, tr, i % tr[1], i \div tr[1])
         \o (IF nl /\ (i + 1) % tr[1] = 0 THEN <<0, 0, 0, 0, 0, 0>> ELSE <<>>)
         \o RgbRows(f, tr, nl, i + 1)

\* Runner::process_frame: Result<StringInfo>, here Some(artifact) or None.
\* The artifact is kept as what determines it (frame, resolution, map,
\* new_lines); Glyphs and Colors below are its two components.
process_frame(f, tr, cm, nl) ==
    IF ResizeOk(SrcW, SrcH, tr)
    THEN Some([src |-> f, w |-> tr[1], h |-> tr[2], cm |-> cm, nl |-> nl])
    ELSE None

Glyphs(a) == to_ascii(a.src, <<a.w, a.h>>, a.cm)
Colors(a) == RgbRows(a.src, <<a.w, a.h>>, a.nl, 0)

\* ------------------------------------------------------- frame source

\* FrameIterator: kind "image" (pos = 1 once the image was taken), "video"
\* (pos frames read so far) or "anim" (pos is current_frame, n frames).
\* Frames are numbered 1..n in decode order.
MediaInit(kind) == [kind |-> kind, pos |-> 0, n |-> IF kind = "image" THEN 1 ELSE NumFrames]

\* FrameIterator::next: <<the frame (Option), the iterator afterwards>>.
media_next(m) ==
    CASE m.kind = "image" ->
            IF m.pos = 0 THEN <<Some(1), [m EXCEPT !.pos = 1]>> ELSE <<None, m>>
      [] m.kind = "video" ->
            IF m.pos < m.n THEN <<Some(m.pos + 1), [m EXCEPT !.pos = m.pos + 1]>>
            ELSE <<None, m>>
      [] OTHER ->
            IF m.pos = m.n - 1 THEN <<None, m>>
            ELSE <<Some(m.pos + 2), [m EXCEPT !.pos = m.pos + 1]>>

\* FrameIterator::skip_frames
skip_frames(m, k) ==
    CASE m.kind = "image" -> m
      [] m.kind = "video" -> [m EXCEPT !.pos = IF m.pos + k < m.n THEN m.pos + k ELSE m.n]
      [] OTHER -> [m EXCEPT !.pos = (m.pos + k) % m.n]

\* -------------------------------------------------------------- state

VARIABLES
    \* configuration, fixed at start
    has_audio,          \* main: audio.is_some()
    allow_frame_skip,   \* Runner::run argument
    w_mod,              \* Runner.w_mod
    new_lines,          \* ImagePipeline.new_lines
    char_maps,          \* Runner.char_maps: the registered maps (their lengths)
    broker_run_waits,   \* whether the run that launch_broker_thread calls is the
                        \* one of broker.rs, which waits on the barrier itself
    \* start barrier
    arrived,            \* number of threads inside barrier.wait()
    \* channels
    frames_ch,          \* tx_frames / rx_buffer, bounded(1), of Option<StringInfo>
    ctrl_media,         \* tx_control / rx_channel_terminal
    ctrl_pipe,          \* tx_channel_pipeline / Runner.rx_controls
    ctrl_audio,         \* tx_channel_audio / audio Runner.rx_controls
    \* Terminal
    term_pc, term_state, use_grayscale, events_left,
    tty_raw,            \* the TTY is in the alternate screen or raw mode
    \* Broker
    broker_pc, running,
    \* Pipeline runner
    pipe_pc, pipe_state, target_resolution, char_map, last_frame, media,
    needs_refresh,      \* frame_needs_refresh of the current iteration
    frame,              \* the frame of the current iteration (Option)
    string_info,        \* the artifact of the current iteration (Option)
    last_resize,        \* arguments of the Resize applied last (Option)
    \* Audio runner
    audio_pc, audio_state, player,
    \* character lookup under test
    q_len, q_lum, q_idx,
    \* the frame rate and the frame-time gate, for the checks of their own
    fps_probed,         \* open_media: MediaData.fps (Option of a rational)
    fps_arg,            \* the --fps given on the command line (Option of a rational)
    fps,                \* Runner.fps (Option: None before Runner::init)
    time_count,         \* Runner::run: the scheduled instant, in ticks
    now,                \* the clock, in ticks
    gate_pc,            \* "absent", "init", "run" or "panicked"
    gate,               \* result of time_to_send_next_frame (Option of <<bool, skip>>)
    \* controls the environment of a component may still send
    env_left

cfgVars == <<has_audio, allow_frame_skip, w_mod, new_lines, char_maps, broker_run_waits>>
chanVars == <<frames_ch, ctrl_media, ctrl_pipe, ctrl_audio>>
termVars == <<term_pc, term_state, use_grayscale, events_left, tty_raw>>
brokerVars == <<broker_pc, running>>
pipeVars == <<pipe_pc, pipe_state, target_resolution, char_map, last_frame, media,
              needs_refresh, frame, string_info, last_resize>>
audioVars == <<audio_pc, audio_state, player>>
gateVars == <<fps_probed, fps_arg, fps, time_count, now, gate_pc, gate>>
qVars == <<q_len, q_lum, q_idx, env_left, gateVars>>
vars == <<cfgVars, arrived, chanVars, termVars, brokerVars, pipeVars, audioVars, qVars>>

MediaKinds == {"image", "video", "anim"}

\* main: num_threads
num_threads == IF has_audio THEN 4 ELSE 3

\* The frame rate and the gate are left out of a specification.
GateIdle ==
    /\ fps_probed = None
    /\ fps_arg = None
    /\ fps = None
    /\ time_count = 0
    /\ now = 0
    /\ gate_pc = "absent"
    /\ gate = None

\* What Runner::init, Terminal::new, MessageBroker::new and audio Runner::new
\* leave behind, with empty channels; the program counters are set by the
\* specifications' initial predicates.
InitData ==
    /\ frames_ch = <<>>
    /\ ctrl_pipe = <<>>
    /\ term_state = "Running"
    /\ use_grayscale \in {FALSE}
    /\ tty_raw = FALSE
    /\ events_left = MaxEvents
    /\ running = TRUE
    /\ pipe_state = "Running"
    /\ char_maps = CharMapLens
    /\ char_map = 0
    /\ last_frame = None
    /\ needs_refresh = FALSE
    /\ frame = None
    /\ string_info = None
    /\ last_resize = None
    /\ audio_state = "Running"
    /\ player = [paused |-> TRUE, muted |-> FALSE, stopped |-> FALSE, call |-> <<>>]
    /\ q_idx = None

\* Media variants the whole-program specification runs.
SysKinds == {"video"}

\* The whole program as main launches it: the Broker and Pipeline threads
\* have nothing to do before barrier.wait() and are inside it.
Init ==
    /\ InitData
    /\ GateIdle
    /\ has_audio \in BOOLEAN
    /\ broker_run_waits \in BOOLEAN
    /\ ctrl_audio = <<>>
    /\ allow_frame_skip = TRUE
    /\ w_mod = 1
    /\ new_lines = FALSE
    /\ media \in {MediaInit(k) : k \in SysKinds}
    /\ target_resolution = DEFAULT_TERMINAL_SIZE
    /\ ctrl_media = <<>>
    /\ q_len = 0
    /\ q_lum = 0
    /\ env_left = 0
    /\ arrived = 2
    /\ term_pc = "setup"
    /\ broker_pc = "wait"
    /\ pipe_pc = "wait"
    /\ audio_pc = IF has_audio THEN "new" ELSE "absent"

\* ------------------------------------------------------------ channels

\* The receiving end of a channel is dropped when its thread has returned.
TermGone == term_pc \in {"done", "failed"}
BrokerGone == broker_pc = "done"
PipeGone == pipe_pc = "done"
AudioGone == audio_pc \in {"done", "failed"}

\* A channel that hands out the newest message first.
Send_Front(ch, msgs, gone) == IF gone THEN ch ELSE msgs \o ch

\* Sender::send on an unbounded channel: the messages are queued unless the
\* receiver is gone (the error is ignored by the caller).
Send(ch, msgs, gone) == IF gone THEN ch ELSE ch \o msgs

\* ------------------------------------------------------------ Terminal

\* Terminal::run up to and into barrier.wait(): the TTY is set up, its size
\* probed and sent as Resize.
TermSetup ==
    /\ term_pc = "setup"
    /\ ctrl_media' = Send(ctrl_media, <<Resize(TtyProbe[1], TtyProbe[2])>>, BrokerGone)
    /\ term_pc' = "wait"
    /\ tty_raw' = TRUE
    /\ arrived' = arrived + 1
    /\ UNCHANGED <<cfgVars, frames_ch, ctrl_pipe, ctrl_audio, term_state, use_grayscale,
                   events_left, brokerVars, pipeVars, audioVars, qVars>>

\* A `?` of the setup returns the error before the barrier is reached:
\* EnterAlternateScreen failed, or a later operation, with the alternate
\* screen entered.
TermSetupFail ==
    /\ term_pc = "setup"
    /\ term_pc' = "failed"
    /\ tty_raw' \in BOOLEAN
    /\ UNCHANGED <<cfgVars, arrived, chanVars, term_state, use_grayscale, events_left,
                   brokerVars, pipeVars, audioVars, qVars>>

\* barrier.wait() returns once num_threads threads have arrived.
TermGo ==
    /\ term_pc = "wait"
    /\ arrived = num_threads
    /\ term_pc' = "poll"
    /\ UNCHANGED <<cfgVars, arrived, chanVars, term_state, use_grayscale, events_left, tty_raw,
                   brokerVars, pipeVars, audioVars, qVars>>

\* Input events: a key with its code and whether its modifiers are exactly
\* CONTROL, a resize with the new size, or any other event (a mouse event).
KeyEvent(c, m) == [kind |-> "Key", code |-> c, ctrl |-> m, w |-> 0, h |-> 0]
ResizeEvent(w, h) == [kind |-> "Resize", code |-> "", ctrl |-> FALSE, w |-> w, h |-> h]
MouseEvent == [kind |-> "Mouse", code |-> "", ctrl |-> FALSE, w |-> 0, h |-> 0]

\* char::is_ascii_digit and char::to_digit(10)
DigitChars == <<"0", "1", "2", "3", "4", "5", "6", "7", "8", "9">>
is_ascii_digit(c) == \E i \in 1..Len(DigitChars) : DigitChars[i] = c
to_digit(c) == (CHOOSE i \in 1..Len(DigitChars) : DigitChars[i] = c) - 1

\* Key codes tried: the ones handle_event names, the digit keys and a key it
\* does not name.
KeyCodes ==
    {"q", "Q", "c", "C", "Esc", " ", "g", "G", "x"} \cup {DigitChars[d + 1] : d \in Digits}

Events ==
    {KeyEvent(c, m) : c \in KeyCodes, m \in BOOLEAN}
        \cup {ResizeEvent(s[1], s[2]) : s \in TtySizes}
        \cup {MouseEvent}

TogglePause(s) ==
    CASE s = "Running" -> "Paused"
      [] s = "Paused" -> "Running"
      [] OTHER -> s

\* A handler whose grayscale arm sends the flag as it was before the toggle.
handle_event_GraySendsOld(ev, st, gray) ==
    CASE ev.kind = "Key" /\ ev.code \in {"q", "Q"} -> <<<<Exit>>, "Stopped", gray, FALSE>>
      [] ev.kind = "Key" /\ ev.code \in {"c", "C"} /\ ev.ctrl ->
            <<<<Exit>>, "Stopped", gray, FALSE>>
      [] ev.kind = "Key" /\ ev.code = "Esc" -> <<<<Exit>>, "Stopped", gray, FALSE>>
      [] ev.kind = "Key" /\ ev.code = " " ->
            <<<<PauseContinue>>, TogglePause(st), gray, FALSE>>
      [] ev.kind = "Resize" -> <<<<Resize(ev.w, ev.h)>>, st, gray, TRUE>>
      [] ev.kind = "Key" /\ is_ascii_digit(ev.code) ->
            <<<<SetCharMap(to_digit(ev.code))>>, st, gray, FALSE>>
      [] ev.kind = "Key" /\ ev.code \in {"g", "G"} ->
            <<<<SetGrayscale(gray)>>, st, ~gray, FALSE>>
      [] OTHER -> <<<<>>, st, gray, FALSE>>

\* A handler whose quit arms send Exit and leave the state as it was.
handle_event_QuitKeepsState(ev, st, gray) ==
    CASE ev.kind = "Key" /\ ev.code \in {"q", "Q"} -> <<<<Exit>>, st, gray, FALSE>>
      [] ev.kind = "Key" /\ ev.code \in {"c", "C"} /\ ev.ctrl ->
            <<<<Exit>>, st, gray, FALSE>>
      [] ev.kind = "Key" /\ ev.code = "Esc" -> <<<<Exit>>, st, gray, FALSE>>
      [] ev.kind = "Key" /\ ev.code = " " ->
            <<<<PauseContinue>>, TogglePause(st), gray, FALSE>>
      [] ev.kind = "Resize" -> <<<<Resize(ev.w, ev.h)>>, st, gray, TRUE>>
      [] ev.kind = "Key" /\ is_ascii_digit(ev.code) ->
            <<<<SetCharMap(to_digit(ev.code))>>, st, gray, FALSE>>
      [] ev.kind = "Key" /\ ev.code \in {"g", "G"} ->
            <<<<SetGrayscale(~gray)>>, st, ~gray, FALSE>>
      [] OTHER -> <<<<>>, st, gray, FALSE>>

\* Terminal::handle_event, the match arms in their order:
\* <<messages sent, state, use_grayscale, drain?>>
handle_event(ev, st, gray) ==
    CASE ev.kind = "Key" /\ ev.code \in {"q", "Q"} -> <<<<Exit>>, "Stopped", gray, FALSE>>
      [] ev.kind = "Key" /\ ev.code \in {"c", "C"} /\ ev.ctrl ->
            <<<<Exit>>, "Stopped", gray, FALSE>>
      [] ev.kind = "Key" /\ ev.code = "Esc" -> <<<<Exit>>, "Stopped", gray, FALSE>>
      [] ev.kind = "Key" /\ ev.code = " " ->
            <<<<PauseContinue>>, TogglePause(st), gray, FALSE>>
      [] ev.kind = "Resize" -> <<<<Resize(ev.w, ev.h)>>, st, gray, TRUE>>
      [] ev.kind = "Key" /\ is_ascii_digit(ev.code) ->
            <<<<SetCharMap(to_digit(ev.code))>>, st, gray, FALSE>>
      [] ev.kind = "Key" /\ ev.code \in {"g", "G"} ->
            <<<<SetGrayscale(~gray)>>, st, ~gray, FALSE>>
      [] OTHER -> <<<<>>, st, gray, FALSE>>

\* The first half of a loop iteration when event::poll reports an event:
\* event::read and handle_event.  A failed send_control (the Broker's
\* receiver is gone) returns the error.
TermPollEvent ==
    /\ term_pc = "poll"
    /\ events_left > 0
    /\ \E ev \in Events :
         LET r == handle_event(ev, term_state, use_grayscale)
         IN /\ term_state' = r[2]
            /\ use_grayscale' = r[3]
            /\ ctrl_media' = Send(ctrl_media, r[1], BrokerGone)
            /\ term_pc' = IF r[1] # <<>> /\ BrokerGone THEN "failed"
                          ELSE IF r[4] THEN "drain" ELSE "recv"
    /\ events_left' = events_left - 1
    /\ UNCHANGED <<cfgVars, arrived, frames_ch, ctrl_pipe, ctrl_audio, tty_raw,
                   brokerVars, pipeVars, audioVars, qVars>>

\* handle_event, Resize arm: while rx_buffer.recv_timeout(1ms).is_ok() {}
TermDrainRecv ==
    /\ term_pc = "drain"
    /\ frames_ch # <<>>
    /\ frames_ch' = Tail(frames_ch)
    /\ UNCHANGED <<cfgVars, arrived, ctrl_media, ctrl_pipe, ctrl_audio, termVars,
                   brokerVars, pipeVars, audioVars, qVars>>

TermDrainTimeout ==
    /\ term_pc = "drain"
    /\ frames_ch = <<>>
    /\ term_pc' = "recv"
    /\ UNCHANGED <<cfgVars, arrived, chanVars, term_state, use_grayscale, events_left, tty_raw,
                   brokerVars, pipeVars, audioVars, qVars>>

\* The loop condition; after the loop, cleanup() and return.
TermLoop(st) == IF st = "Stopped" THEN "done" ELSE "poll"

\* rx_buffer.try_recv(): the channel afterwards.
try_recv(ch) == IF ch # <<>> THEN Tail(ch) ELSE ch

\* Whether try_recv hands the Terminal an artifact, which it then draws.
Draws(ch) == ch # <<>> /\ Head(ch) # None

\* Terminal::cleanup: the alternate screen is left and raw mode disabled.
cleanup(raw) == FALSE

\* The second half of a loop iteration: rx_buffer.try_recv(), draw on
\* Ok(Some(s)), the loop condition and, after the loop, cleanup.
\* At "poll" this is an iteration in which event::poll reported no event.
TermRecv ==
    /\ term_pc \in {"poll", "recv"}
    /\ frames_ch' = try_recv(frames_ch)
    /\ term_pc' = TermLoop(term_state)
    /\ tty_raw' = IF TermLoop(term_state) = "done" THEN cleanup(tty_raw) ELSE tty_raw
    /\ UNCHANGED <<cfgVars, arrived, ctrl_media, ctrl_pipe, ctrl_audio, term_state,
                   use_grayscale, events_left, brokerVars, pipeVars, audioVars, qVars>>

\* event::poll, event::read or draw returns an error: run returns it at the
\* `?`, without cleanup.  A failed draw has taken its artifact.  Or the loop
\* is over and cleanup itself returns an error.
TermFail ==
    /\ \/ term_pc = "poll" /\ UNCHANGED frames_ch
       \/ /\ term_pc \in {"poll", "recv"}
          /\ Draws(frames_ch)
          /\ frames_ch' = Tail(frames_ch)
       \/ /\ term_pc \in {"poll", "recv"}
          /\ TermLoop(term_state) = "done"
          /\ ~Draws(frames_ch)
          /\ frames_ch' = try_recv(frames_ch)
    /\ term_pc' = "failed"
    /\ UNCHANGED <<cfgVars, arrived, ctrl_media, ctrl_pipe, ctrl_audio, term_state,
                   use_grayscale, events_left, tty_raw, brokerVars, pipeVars,
                   audioVars, qVars>>

\* -------------------------------------------------------------- Broker

\* A broker that keeps Exit to itself.
BrokerToPipeline_NoExit(m) ==
    CASE m.op = "PauseContinue" -> <<PauseContinue>>
      [] m.op = "Resize" -> <<Resize(m.a, m.b)>>
      [] m.op = "SetCharMap" -> <<SetCharMap(m.a)>>
      [] m.op = "SetGrayscale" -> <<SetGrayscale(m.a = 1)>>
      [] OTHER -> <<>>

\* A broker that shuts the pipeline down when playback is paused.
BrokerToPipeline_StopOnPause(m) ==
    CASE m.op = "Exit" -> <<Exit>>
      [] m.op = "PauseContinue" -> <<Exit>>
      [] m.op = "Resize" -> <<Resize(m.a, m.b)>>
      [] m.op = "SetCharMap" -> <<SetCharMap(m.a)>>
      [] m.op = "SetGrayscale" -> <<SetGrayscale(m.a = 1)>>
      [] OTHER -> <<>>

\* MessageBroker::run, the match arms: what goes to the pipeline channel.
\* main always hands the Broker Some(tx_controls_pipeline).
BrokerToPipeline(m) ==
    CASE m.op = "Exit" -> <<Exit>>
      [] m.op = "PauseContinue" -> <<PauseContinue>>
      [] m.op = "Resize" -> <<Resize(m.a, m.b)>>
      [] m.op = "SetCharMap" -> <<SetCharMap(m.a)>>
      [] m.op = "SetGrayscale" -> <<SetGrayscale(m.a = 1)>>
      [] OTHER -> <<>>

\* A broker that takes the audio sender for granted.
BrokerToAudio_IgnoreAbsent(m, tx) ==
    CASE m.op = "Exit" -> <<Exit>>
      [] m.op = "PauseContinue" -> <<PauseContinue>>
      [] m.op = "MuteUnmute" -> <<MuteUnmute>>
      [] OTHER -> <<>>

\* MessageBroker::run, the match arms: what goes to the audio channel;
\* tx is whether tx_channel_audio is Some.
BrokerToAudio(m, tx) ==
    IF ~tx THEN <<>>
    ELSE CASE m.op = "Exit" -> <<Exit>>
           [] m.op = "PauseContinue" -> <<PauseContinue>>
           [] m.op = "MuteUnmute" -> <<MuteUnmute>>
           [] OTHER -> <<>>

\* The number of threads inside a second round of the barrier: only the
\* Broker's thread ever waits again.
arrived_again == IF broker_pc = "wait2" THEN 1 ELSE 0

\* The Broker thread is in the barrier.wait() of launch_broker_thread from
\* the start.  When that wait returns the thread calls run: main.rs calls it
\* without a barrier, broker.rs defines it with one and waits on it first.
\* Both are kept: with broker_run_waits the thread enters the barrier a
\* second time, and a std Barrier then needs num_threads new arrivals.
BrokerGo ==
    /\ \/ /\ broker_pc = "wait"
          /\ arrived = num_threads
          /\ broker_pc' = IF broker_run_waits THEN "wait2" ELSE "loop"
       \/ /\ broker_pc = "wait2"
          /\ arrived_again = num_threads
          /\ broker_pc' = "loop"
    /\ UNCHANGED <<cfgVars, arrived, chanVars, termVars, running, pipeVars, audioVars, qVars>>

\* One iteration of `while running || !rx.is_empty()` that receives a
\* message: the select! arm with the whole match.
BrokerRecv ==
    /\ broker_pc = "loop"
    /\ ctrl_media # <<>>
    /\ LET m == Head(ctrl_media)
       IN /\ ctrl_pipe' = Send(ctrl_pipe, BrokerToPipeline(m), PipeGone)
          /\ ctrl_audio' = Send(ctrl_audio, BrokerToAudio(m, has_audio), AudioGone)
          /\ running' = IF m.op = "Exit" THEN FALSE ELSE running
    /\ ctrl_media' = Tail(ctrl_media)
    /\ UNCHANGED <<cfgVars, arrived, frames_ch, termVars, broker_pc, pipeVars,
                   audio_pc, audio_state, player, qVars>>

\* One iteration in which recv returns Err at once: the channel is empty and
\* its only sender, moved into the Terminal's thread, was dropped when that
\* thread returned.  The Err arm does nothing and the loop goes round.
BrokerRecvErr ==
    /\ broker_pc = "loop"
    /\ ctrl_media = <<>>
    /\ TermGone
    /\ running
    /\ UNCHANGED vars

\* A broker whose loop is `while running`, without the is_empty test.
BrokerStop_NoDrain ==
    /\ broker_pc = "loop"
    /\ ~running
    /\ broker_pc' = "done"
    /\ UNCHANGED <<cfgVars, arrived, chanVars, termVars, running, pipeVars, audioVars, qVars>>

\* The loop condition is false: run returns Ok(()).
BrokerStop ==
    /\ broker_pc = "loop"
    /\ ~running
    /\ ctrl_media = <<>>
    /\ broker_pc' = "done"
    /\ UNCHANGED <<cfgVars, arrived, chanVars, termVars, running, pipeVars, audioVars, qVars>>

\* ------------------------------------------------------------ Pipeline

\* The Pipeline thread is in barrier.wait() from the start.
PipeGo ==
    /\ pipe_pc = "wait"
    /\ arrived = num_threads
    /\ pipe_pc' = "ctl"
    /\ UNCHANGED <<cfgVars, arrived, chanVars, termVars, brokerVars, pipe_state,
                   target_resolution, char_map, last_frame, media, needs_refresh, frame,
                   string_info, last_resize, audioVars, qVars>>

\* A toggle that also wakes a stopped pipeline.
toggle_pause_Wake(s) ==
    CASE s = "Running" -> "Paused"
      [] OTHER -> "Running"

\* A toggle that pauses and never resumes.
toggle_pause_OneWay(s) == IF s = "Running" THEN "Paused" ELSE s

\* Runner::toggle_pause
toggle_pause(s) ==
    CASE s = "Running" -> "Paused"
      [] s = "Paused" -> "Running"
      [] OTHER -> s

\* A resize that forgets the width modifier.
resize_pipeline_NoWmod(width, height, wmod) == <<width, height>>

\* Runner::resize_pipeline with ImagePipeline::set_target_resolution
resize_pipeline(width, height, wmod) == <<width \div wmod, height>>

\* A selection that clamps to the last map where the code wraps around.
set_char_map_Clamp(k, maps) == IF k < Len(maps) THEN k ELSE Len(maps) - 1

\* Runner::set_char_map: the number of the selected registered map.
set_char_map(k, maps) == k % Len(maps)

\* A match whose Resize arm also resumes playback.
apply_control_ResizeResumes(c, st, tr, cm, wmod) ==
    CASE c.op = "PauseContinue" -> <<toggle_pause(st), tr, cm>>
      [] c.op = "Exit" -> <<"Stopped", tr, cm>>
      [] c.op = "Resize" -> <<"Running", resize_pipeline(c.a, c.b, wmod), cm>>
      [] c.op = "SetCharMap" -> <<st, tr, set_char_map(c.a, char_maps)>>
      [] OTHER -> <<st, tr, cm>>

\* process_control_commands, the match on one control: the new
\* <<state, target_resolution, char_map>>.
apply_control(c, st, tr, cm, wmod) ==
    CASE c.op = "PauseContinue" -> <<toggle_pause(st), tr, cm>>
      [] c.op = "Exit" -> <<"Stopped", tr, cm>>
      [] c.op = "Resize" -> <<st, resize_pipeline(c.a, c.b, wmod), cm>>
      [] c.op = "SetCharMap" -> <<st, tr, set_char_map(c.a, char_maps)>>
      [] OTHER -> <<st, tr, cm>>

\* process_control_commands: recv_timeout returned a control.
PipeCtlRecv ==
    /\ pipe_pc = "ctl"
    /\ ctrl_pipe # <<>>
    /\ LET c == Head(ctrl_pipe)
           r == apply_control(c, pipe_state, target_resolution, char_map, w_mod)
       IN /\ pipe_state' = r[1]
          /\ target_resolution' = r[2]
          /\ char_map' = r[3]
          /\ last_resize' = IF c.op = "Resize" THEN Some(<<c.a, c.b>>) ELSE last_resize
    /\ ctrl_pipe' = Tail(ctrl_pipe)
    /\ needs_refresh' = TRUE
    /\ UNCHANGED <<cfgVars, arrived, frames_ch, ctrl_media, ctrl_audio, termVars, brokerVars,
                   pipe_pc, last_frame, media, frame, string_info, audioVars, qVars>>

\* The `while self.state != State::Stopped` test that starts the next
\* iteration.
PipeLoop(st) == IF st = "Stopped" THEN "done" ELSE "ctl"

\* Runner::should_process_frame
should_process_frame(timeToSend, st) == timeToSend /\ st \in {"Running", "Paused"}

\* A pipeline that keeps decoding while paused.
get_current_frame_AlwaysNext(st, m, last) == media_next(m)

\* Runner::get_current_frame: <<frame (Option), the source afterwards>>
get_current_frame(st, m, last) ==
    IF st = "Running" THEN media_next(m) ELSE <<last, m>>

\* The control drain is over (recv_timeout timed out) and should_process_frame
\* is false (the gate is closed, or the state is Stopped): thread::yield_now()
\* and the next iteration.
PipeGateClosed ==
    /\ pipe_pc = "ctl"
    /\ ctrl_pipe = <<>>
    /\ \E timeToSend \in BOOLEAN :
         /\ ~should_process_frame(timeToSend, pipe_state)
         /\ pipe_pc' = PipeLoop(pipe_state)
    /\ needs_refresh' = FALSE
    /\ UNCHANGED <<cfgVars, arrived, chanVars, termVars, brokerVars, pipe_state,
                   target_resolution, char_map, last_frame, media, frame, string_info,
                   last_resize, audioVars, qVars>>

\* The control drain is over and should_process_frame is true with
\* frames_to_skip = skip: skip_frames when allowed, then get_current_frame.
PipeGateOpen ==
    /\ pipe_pc = "ctl"
    /\ ctrl_pipe = <<>>
    /\ should_process_frame(TRUE, pipe_state)
    /\ \E skip \in 0..MaxSkip :
         LET skipped == IF skip > 0 /\ allow_frame_skip THEN skip_frames(media, skip)
                        ELSE media
             got == get_current_frame(pipe_state, skipped, last_frame)
         IN /\ frame' = got[1]
            /\ media' = got[2]
    /\ pipe_pc' = "probe"
    /\ UNCHANGED <<cfgVars, arrived, chanVars, termVars, brokerVars, pipe_state,
                   target_resolution, char_map, last_frame, needs_refresh, string_info,
                   last_resize, audioVars, qVars>>

\* Runner::process_current_frame: <<string_info (Option), last_frame>>
process_current_frame(fr, refresh, last, tr, cm, nl) ==
    IF fr # None
    THEN <<process_frame(fr[1], tr, cm, nl), fr>>
    ELSE IF last # None /\ refresh
         THEN <<process_frame(last[1], tr, cm, nl), last>>
         ELSE <<None, last>>

\* bounded(1) channel: whether a send can complete now.
CanSend(ch) == Len(ch) < FramesCap

\* select! { send(tx_frames, None) }: the probe is taken (or the send fails
\* at once because the receiver is gone); process_current_frame runs.
PipeProbe ==
    /\ pipe_pc = "probe"
    /\ CanSend(frames_ch) \/ TermGone
    /\ frames_ch' = IF TermGone THEN frames_ch ELSE Append(frames_ch, None)
    /\ LET r == process_current_frame(frame, needs_refresh, last_frame,
                                      target_resolution, char_map, new_lines)
       IN /\ string_info' = r[1]
          /\ last_frame' = r[2]
    /\ frame' = None
    /\ needs_refresh' = FALSE
    /\ pipe_pc' = "emit"
    /\ UNCHANGED <<cfgVars, arrived, ctrl_media, ctrl_pipe, ctrl_audio, termVars, brokerVars,
                   pipe_state, target_resolution, char_map, media,
                   last_resize, audioVars, qVars>>

\* A plain blocking send of the probe: no timeout arm, the runner waits.
PipeProbeTimeout_Blocking ==
    /\ pipe_pc = "probe"
    /\ ~CanSend(frames_ch)
    /\ ~TermGone
    /\ UNCHANGED vars

\* select! default(5ms): the channel stayed full, the frame is dropped.
PipeProbeTimeout ==
    /\ pipe_pc = "probe"
    /\ ~CanSend(frames_ch)
    /\ ~TermGone
    /\ frame' = None
    /\ needs_refresh' = FALSE
    /\ pipe_pc' = PipeLoop(pipe_state)
    /\ UNCHANGED <<cfgVars, arrived, chanVars, termVars, brokerVars, pipe_state,
                   target_resolution, char_map, last_frame, media, string_info,
                   last_resize, audioVars, qVars>>

\* A send that never finds the channel full.
try_send_NoCap(ch, x, gone) == IF gone THEN ch ELSE Append(ch, x)

\* Sender::try_send: queued when there is room, dropped otherwise.
try_send(ch, x, gone) == IF CanSend(ch) /\ ~gone THEN Append(ch, x) ELSE ch

\* let _ = self.tx_frames.try_send(string_info), and the next iteration.
PipeEmit ==
    /\ pipe_pc = "emit"
    /\ frames_ch' = try_send(frames_ch, string_info, TermGone)
    /\ string_info' = None
    /\ pipe_pc' = PipeLoop(pipe_state)
    /\ UNCHANGED <<cfgVars, arrived, ctrl_media, ctrl_pipe, ctrl_audio, termVars, brokerVars,
                   pipe_state, target_resolution, char_map, last_frame, media,
                   needs_refresh, frame, last_resize, audioVars, qVars>>

\* --------------------------------------------------------------- Audio

\* launch_audio_thread: AudioPlayer::new succeeds (the backend starts
\* paused) and Runner::run enters barrier.wait().
AudioNew ==
    /\ audio_pc = "new"
    /\ audio_pc' = "wait"
    /\ arrived' = arrived + 1
    /\ UNCHANGED <<cfgVars, chanVars, termVars, brokerVars, pipeVars,
                   audio_state, player, qVars>>

\* AudioPlayer::new returns an error: the thread ends before the barrier.
AudioNewFail ==
    /\ audio_pc = "new"
    /\ audio_pc' = "failed"
    /\ UNCHANGED <<cfgVars, arrived, chanVars, termVars, brokerVars, pipeVars,
                   audio_state, player, qVars>>

\* barrier.wait() returns, then self.audio_player.player.resume().
AudioGo ==
    /\ audio_pc = "wait"
    /\ arrived = num_threads
    /\ player' = [player EXCEPT !.paused = FALSE, !.call = <<"resume">>]
    /\ audio_pc' = "loop"
    /\ UNCHANGED <<cfgVars, arrived, chanVars, termVars, brokerVars, pipeVars,
                   audio_state, qVars>>

\* A match whose Exit arm leaves the backend playing.
audio_control_ExitSilent(c, st, pl) ==
    CASE c.op = "PauseContinue" ->
            <<TogglePause(st), [pl EXCEPT !.paused = ~pl.paused, !.call = <<"toggle_play">>]>>
      [] c.op = "MuteUnmute" ->
            <<st, [pl EXCEPT !.muted = ~pl.muted, !.call = <<"toggle_mute">>]>>
      [] c.op = "Replay" -> <<st, [pl EXCEPT !.call = <<"rewind">>]>>
      [] OTHER -> <<"Stopped", [pl EXCEPT !.call = <<>>]>>

\* audio Runner::run, the match on one control: <<state, player>>.  The
\* player's call field holds the backend calls of the step.
audio_control(c, st, pl) ==
    CASE c.op = "PauseContinue" ->
            <<TogglePause(st), [pl EXCEPT !.paused = ~pl.paused, !.call = <<"toggle_play">>]>>
      [] c.op = "MuteUnmute" ->
            <<st, [pl EXCEPT !.muted = ~pl.muted, !.call = <<"toggle_mute">>]>>
      [] c.op = "Replay" -> <<st, [pl EXCEPT !.call = <<"rewind">>]>>
      [] OTHER -> <<"Stopped", [pl EXCEPT !.stopped = TRUE, !.call = <<"stop">>]>>

\* One iteration of `while self.state != State::Stopped`: recv and the match.
AudioRecv ==
    /\ audio_pc = "loop"
    /\ ctrl_audio # <<>>
    /\ LET r == audio_control(Head(ctrl_audio), audio_state, player)
       IN /\ audio_state' = r[1]
          /\ player' = r[2]
          /\ audio_pc' = IF r[1] = "Stopped" THEN "done" ELSE "loop"
    /\ ctrl_audio' = Tail(ctrl_audio)
    /\ UNCHANGED <<cfgVars, arrived, frames_ch, ctrl_media, ctrl_pipe, termVars, brokerVars,
                   pipeVars, qVars>>

\* A backend call returns an error, which run returns at the `?`: resume, or
\* the call made for a received control, the state already assigned.
AudioFail ==
    /\ \/ /\ audio_pc = "wait"
          /\ arrived = num_threads
          /\ player' = [player EXCEPT !.call = <<"resume">>]
          /\ UNCHANGED <<ctrl_audio, audio_state>>
       \/ /\ audio_pc = "loop"
          /\ ctrl_audio # <<>>
          /\ LET r == audio_control(Head(ctrl_audio), audio_state, player)
             IN /\ audio_state' = r[1]
                /\ player' = [player EXCEPT !.call = r[2].call]
          /\ ctrl_audio' = Tail(ctrl_audio)
    /\ audio_pc' = "failed"
    /\ UNCHANGED <<cfgVars, arrived, frames_ch, ctrl_media, ctrl_pipe, termVars, brokerVars,
                   pipeVars, qVars>>

\* ------------------------------------------------- the whole program

TermNext ==
    \/ TermSetup \/ TermSetupFail \/ TermGo \/ TermPollEvent
    \/ TermDrainRecv \/ TermDrainTimeout \/ TermRecv \/ TermFail
BrokerNext == BrokerGo \/ BrokerRecv \/ BrokerRecvErr \/ BrokerStop
PipeNext ==
    \/ PipeGo \/ PipeCtlRecv \/ PipeGateClosed
    \/ PipeGateOpen \/ PipeProbe \/ PipeProbeTimeout \/ PipeEmit
AudioNext == AudioNew \/ AudioNewFail \/ AudioGo \/ AudioRecv \/ AudioFail

Next == TermNext \/ BrokerNext \/ PipeNext \/ AudioNext

Spec == Init /\ [][Next]_vars

\* Each thread is scheduled fairly by the operating system.
FairSpec ==
    /\ Spec
    /\ WF_vars(TermNext) /\ WF_vars(BrokerNext) /\ WF_vars(PipeNext) /\ WF_vars(AudioNext)

\* ------------------------------------------------- the Broker alone

\* The Broker after the barrier, with any controls already queued on
\* ctrl_media; the downstream receivers are alive and not scheduled.
InitBroker ==
    /\ InitData
    /\ GateIdle
    /\ has_audio \in BOOLEAN
    /\ broker_run_waits = FALSE
    /\ ctrl_audio = <<>>
    /\ allow_frame_skip = FALSE
    /\ w_mod = 1
    /\ new_lines = FALSE
    /\ media = MediaInit("video")
    /\ target_resolution = DEFAULT_TERMINAL_SIZE
    /\ ctrl_media \in SeqsUpTo(MediaControl, MaxQueue)
    /\ arrived = 0
    /\ term_pc = "absent"
    /\ broker_pc = "loop"
    /\ pipe_pc = "absent"
    /\ audio_pc = "absent"
    /\ q_len = 0
    /\ q_lum = 0
    /\ env_left = 0

NextBroker == BrokerRecv \/ BrokerStop

SpecBroker == InitBroker /\ [][NextBroker]_vars

FairSpecBroker == SpecBroker /\ WF_vars(NextBroker)

\* --------------------------------------------------- the Audio alone

AudioControl == {PauseContinue, MuteUnmute, Replay, Exit}

\* The Audio runner inside barrier.wait() with all threads arrived, and any
\* controls already queued on ctrl_audio.
InitAudio ==
    /\ InitData
    /\ GateIdle
    /\ has_audio = TRUE
    /\ broker_run_waits = FALSE
    /\ ctrl_audio \in SeqsUpTo(AudioControl, MaxQueue)
    /\ allow_frame_skip = FALSE
    /\ w_mod = 1
    /\ new_lines = FALSE
    /\ media = MediaInit("video")
    /\ target_resolution = DEFAULT_TERMINAL_SIZE
    /\ ctrl_media = <<>>
    /\ arrived = 4
    /\ term_pc = "absent"
    /\ broker_pc = "absent"
    /\ pipe_pc = "absent"
    /\ audio_pc = "wait"
    /\ q_len = 0
    /\ q_lum = 0
    /\ env_left = 0

NextAudio == AudioGo \/ AudioRecv \/ AudioFail

SpecAudio == InitAudio /\ [][NextAudio]_vars

FairSpecAudio == SpecAudio /\ WF_vars(NextAudio)

\* ------------------------------------------------ the Pipeline alone

\* The resolution the image pipeline is constructed with.
InitRes == <<3, 2>>

\* The Pipeline runner after the barrier, for every configuration and media
\* variant; its environment sends any controls and receives frames at will.
InitPipe ==
    /\ InitData
    /\ GateIdle
    /\ has_audio = FALSE
    /\ broker_run_waits = FALSE
    /\ ctrl_audio = <<>>
    /\ allow_frame_skip \in BOOLEAN
    /\ w_mod \in {1, 2}
    /\ new_lines \in BOOLEAN
    /\ media \in {MediaInit(k) : k \in MediaKinds}
    /\ target_resolution = InitRes
    /\ ctrl_media = <<>>
    /\ arrived = 0
    /\ term_pc = "absent"
    /\ broker_pc = "absent"
    /\ pipe_pc = "ctl"
    /\ audio_pc = "absent"
    /\ q_len = 0
    /\ q_lum = 0
    /\ env_left = MaxEvents

\* The sender of ctrl_pipe queues a control.
EnvSendControl ==
    /\ env_left > 0
    /\ env_left' = env_left - 1
    /\ \E c \in PipelineControl : ctrl_pipe' = Send(ctrl_pipe, <<c>>, PipeGone)
    /\ UNCHANGED <<cfgVars, arrived, frames_ch, ctrl_media, ctrl_audio, termVars, brokerVars,
                   pipeVars, audioVars, q_len, q_lum, q_idx, gateVars>>

\* The receiver of frames takes what is queued.
EnvRecvFrame ==
    /\ frames_ch # <<>>
    /\ frames_ch' = Tail(frames_ch)
    /\ UNCHANGED <<cfgVars, arrived, ctrl_media, ctrl_pipe, ctrl_audio, termVars, brokerVars,
                   pipeVars, audioVars, qVars>>

PipeSteps ==
    \/ PipeCtlRecv \/ PipeGateClosed \/ PipeGateOpen \/ PipeProbe \/ PipeProbeTimeout
    \/ PipeEmit

NextPipe == EnvSendControl \/ EnvRecvFrame \/ PipeSteps

SpecPipe == InitPipe /\ [][NextPipe]_vars

\* The runner's thread keeps being scheduled; nothing is assumed of its
\* environment, which may never receive a frame.
FairSpecPipe == SpecPipe /\ WF_vars(PipeSteps)

\* --------------------------------------------- the character lookup

\* Lengths of character maps: the registered ones and short configured ones.
MapLens == {CharMapLens[i] : i \in 1..NumCharMaps} \cup 1..MaxUserMapLen

\* to_ascii is about to look up the glyph of one pixel: any map length and
\* any luminance byte.
InitToAscii ==
    /\ InitData
    /\ GateIdle
    /\ has_audio = FALSE
    /\ broker_run_waits = FALSE
    /\ ctrl_audio = <<>>
    /\ allow_frame_skip = FALSE
    /\ w_mod = 1
    /\ new_lines = FALSE
    /\ media = MediaInit("image")
    /\ target_resolution = DEFAULT_TERMINAL_SIZE
    /\ ctrl_media = <<>>
    /\ arrived = 0
    /\ term_pc = "absent"
    /\ broker_pc = "absent"
    /\ pipe_pc = "absent"
    /\ audio_pc = "absent"
    /\ q_len \in MapLens
    /\ q_lum \in 0..(LumLevels - 1)
    /\ env_left = 0

\* to_ascii, the closure of the map: the lookup index of one pixel.
LookupGlyph ==
    /\ q_idx = None
    /\ q_idx' = Some(LookupIdx(q_len, q_lum))
    /\ UNCHANGED <<cfgVars, arrived, chanVars, termVars, brokerVars, pipeVars, audioVars,
                   q_len, q_lum, env_left, gateVars>>

NextToAscii == LookupGlyph

SpecToAscii == InitToAscii /\ [][NextToAscii]_vars

\* ------------------------------------------------ the frame-time gate

\* Frame rates are rationals <<numerator, denominator>>.
FpsProbed == {<<3, 2>>, <<2, 1>>}
FpsArgs == {<<1, 2>>, <<3, 1>>}

\* Args.fps: clap's default_value when --fps is not given, parsed as f64.
args_fps(arg) == IF arg # None THEN arg[1] ELSE <<DefaultFps, 1>>

\* launch_pipeline_thread: fps.unwrap_or(args_fps)
pipeline_fps(probed, arg) == IF probed # None THEN probed[1] ELSE args_fps(arg)

\* `self.fps as u64`: the float truncated towards zero.
as_u64(f) == f[1] \div f[2]

\* Duration::from_nanos(1_000_000_000_u64 / self.fps as u64), in ticks.
target_frame_duration(f) == TicksPerSecond \div as_u64(f)

\* The integer divisions of time_to_send_next_frame that divide by zero.
GatePanics(f) == IF as_u64(f) = 0 THEN TRUE ELSE target_frame_duration(f) = 0

\* Runner::time_to_send_next_frame at instant t with scheduled instant tc:
\* <<time to send, frames_to_skip, the scheduled instant afterwards>>.
time_to_send_next_frame(f, tc, t) ==
    LET target == target_frame_duration(f)
        elapsed == t - tc
    IN IF elapsed >= target
       THEN LET frames_to_skip == elapsed \div target - 1
            IN <<TRUE, frames_to_skip, tc + target * (frames_to_skip + 1)>>
       ELSE <<FALSE, 0, tc>>

\* open_media has probed the source and the command line is parsed.
InitGate ==
    /\ InitData
    /\ has_audio = FALSE
    /\ broker_run_waits = FALSE
    /\ ctrl_audio = <<>>
    /\ allow_frame_skip = TRUE
    /\ w_mod = 1
    /\ new_lines = FALSE
    /\ media = MediaInit("video")
    /\ target_resolution = DEFAULT_TERMINAL_SIZE
    /\ ctrl_media = <<>>
    /\ arrived = 0
    /\ term_pc = "absent"
    /\ broker_pc = "absent"
    /\ pipe_pc = "absent"
    /\ audio_pc = "absent"
    /\ q_len = 0
    /\ q_lum = 0
    /\ env_left = 0
    /\ fps_probed \in {None} \cup {Some(f) : f \in FpsProbed}
    /\ fps_arg \in {None} \cup {Some(f) : f \in FpsArgs}
    /\ fps = None
    /\ time_count = 0
    /\ now \in 0..1
    /\ gate_pc = "init"
    /\ gate = None

\* launch_pipeline_thread with Runner::init, and Runner::run up to the loop:
\* the frame rate is chosen and time_count = Instant::now().
GateInit ==
    /\ gate_pc = "init"
    /\ fps' = Some(pipeline_fps(fps_probed, fps_arg))
    /\ time_count' = now
    /\ gate_pc' = "run"
    /\ UNCHANGED <<cfgVars, arrived, chanVars, termVars, brokerVars, pipeVars, audioVars,
                   q_len, q_lum, q_idx, env_left, fps_probed, fps_arg, now, gate>>

\* Time passes between two iterations of the runner's loop.
GateClock ==
    /\ gate_pc = "run"
    /\ \E d \in ClockSteps :
         /\ now + d <= MaxTime
         /\ now' = now + d
    /\ UNCHANGED <<cfgVars, arrived, chanVars, termVars, brokerVars, pipeVars, audioVars,
                   q_len, q_lum, q_idx, env_left, fps_probed, fps_arg, fps, time_count,
                   gate_pc, gate>>

\* One call of time_to_send_next_frame.
GateCheck ==
    /\ gate_pc = "run"
    /\ ~GatePanics(fps[1])
    /\ LET r == time_to_send_next_frame(fps[1], time_count, now)
       IN /\ gate' = Some(<<r[1], r[2]>>)
          /\ time_count' = r[3]
    /\ UNCHANGED <<cfgVars, arrived, chanVars, termVars, brokerVars, pipeVars, audioVars,
                   q_len, q_lum, q_idx, env_left, fps_probed, fps_arg, fps, now, gate_pc>>

\* One call of time_to_send_next_frame divides by zero: the thread panics.
GatePanic ==
    /\ gate_pc = "run"
    /\ GatePanics(fps[1])
    /\ gate_pc' = "panicked"
    /\ UNCHANGED <<cfgVars, arrived, chanVars, termVars, brokerVars, pipeVars, audioVars,
                   q_len, q_lum, q_idx, env_left, fps_probed, fps_arg, fps, time_count, now,
                   gate>>

NextGate == GateInit \/ GateClock \/ GateCheck \/ GatePanic

SpecGate == InitGate /\ [][NextGate]_vars

\* ======================================================== properties

Range(s) == {s[i] : i \in 1..Len(s)}

\* The step in which the receiver of channel ch takes its first message.
Takes(ch, chNext) == ch # <<>> /\ chNext = Tail(ch)

\* ------------------------------------------------------------------ C1
\* The fan-out table of the Broker: what a MediaControl is forwarded as.
FanoutPipeline(m) ==
    IF m.op \in {"PauseContinue", "Exit", "Resize", "SetCharMap", "SetGrayscale"}
    THEN <<m>> ELSE <<>>
FanoutAudio(m) ==
    IF m.op \in {"PauseContinue", "Exit", "MuteUnmute"} THEN <<m>> ELSE <<>>

\* C1: for every MediaControl the Broker receives it sends exactly the
\* messages of the fan-out table, with unchanged arguments, and no others;
\* without an audio channel nothing audio-bound is ever sent while the
\* pipeline-bound part is still forwarded.  Checked on the Broker alone, for
\* every queue of controls.
C1_FanOut ==
    [][/\ Takes(ctrl_media, ctrl_media') =>
            /\ ctrl_pipe' = ctrl_pipe \o FanoutPipeline(Head(ctrl_media))
            /\ ctrl_audio' = IF has_audio
                             THEN ctrl_audio \o FanoutAudio(Head(ctrl_media))
                             ELSE <<>>
       /\ ~Takes(ctrl_media, ctrl_media') => UNCHANGED <<ctrl_pipe, ctrl_audio>>]_vars

\* Without an audio channel the Broker forwarded PauseContinue and Exit to
\* the pipeline alone and returned.
C1_Witness ==
    /\ ~has_audio
    /\ broker_pc = "done"
    /\ ctrl_pipe = <<PauseContinue, Exit>>
    /\ ctrl_audio = <<>>

\* ------------------------------------------------------------------ C2
\* C2: when the Broker receives Exit it sends Exit on every present
\* downstream channel in that same step and goes on with its loop; it
\* returns only after that, with nothing left queued on ctrl_media; and
\* once Exit was received it does return.
C2_ExitDrainStop ==
    /\ [][Takes(ctrl_media, ctrl_media') /\ Head(ctrl_media) = Exit =>
            /\ ctrl_pipe' = Append(ctrl_pipe, Exit)
            /\ has_audio => ctrl_audio' = Append(ctrl_audio, Exit)
            /\ broker_pc' = "loop"]_vars
    /\ [](broker_pc = "done" =>
            /\ Exit \in Range(ctrl_pipe)
            /\ has_audio => Exit \in Range(ctrl_audio)
            /\ ctrl_media = <<>>)
    /\ (~running ~> broker_pc = "done")

\* The Broker returned after consuming a control that was queued behind Exit.
C2_Witness ==
    /\ broker_pc = "done"
    /\ has_audio
    /\ Len(ctrl_pipe) = 2
    /\ ctrl_pipe[1] = Exit
    /\ ctrl_audio[1] = Exit

\* ------------------------------------------------------------------ C3
Terminated(pc) == pc \in {"done", "failed", "absent"}

AllTerminated ==
    /\ Terminated(term_pc)
    /\ Terminated(broker_pc)
    /\ Terminated(pipe_pc)
    /\ Terminated(audio_pc)

\* C3: once the Terminal has handled the quit key, every launched worker
\* (Terminal, Broker, Pipeline, and Audio when present) eventually
\* terminates, every worker being scheduled fairly.
C3_QuitTerminatesAll == (term_state = "Stopped") ~> AllTerminated

\* ------------------------------------------------------------------ C4
\* C4: once the Pipeline is Stopped no later command changes its state,
\* and it puts nothing more on the frames channel, artifact or probe.
C4_StoppedAbsorbing ==
    [][pipe_state = "Stopped" =>
         /\ pipe_state' = "Stopped"
         /\ frames_ch' = frames_ch \/ Takes(frames_ch, frames_ch')]_vars

\* Stopped, with a PauseContinue that arrived behind the Exit still to apply.
C4_Witness ==
    /\ pipe_state = "Stopped"
    /\ pipe_pc = "ctl"
    /\ needs_refresh
    /\ ctrl_pipe # <<>>
    /\ Head(ctrl_pipe) = PauseContinue

\* ------------------------------------------------------------------ C5
\* The step in which the Terminal takes an artifact off the frames channel
\* and draws it.
TermDrawStep ==
    /\ term_pc \in {"poll", "recv"}
    /\ Draws(frames_ch)
    /\ frames_ch' = Tail(frames_ch)
    /\ term_pc' # "failed"

\* C5: once the Terminal's state is Stopped it draws no further frame, even
\* if an artifact is waiting on the frames channel.
C5_NoDrawAfterStopped == [][term_state = "Stopped" => ~TermDrawStep]_vars

\* ------------------------------------------------------------------ C6
\* C6: the frames channel never holds more than one pending item.
C6_FramesAtMostOne == Len(frames_ch) <= 1

\* The Pipeline is about to try_send an artifact while the channel is full.
C6_Witness ==
    /\ pipe_pc = "emit"
    /\ string_info # None
    /\ Len(frames_ch) = 1
    /\ ~TermGone

\* ------------------------------------------------------------------ C7
\* C7: every artifact the Pipeline emits has exactly W * H glyphs and
\* 3 * W * H color bytes, (W, H) being the target resolution at the tick
\* that produced it, with no line terminator among the glyphs and no
\* padding among the colors.
C7_ArtifactShape ==
    pipe_pc = "emit" /\ string_info # None =>
        LET a == string_info[1]
            W == target_resolution[1]
            H == target_resolution[2]
        IN /\ Len(Glyphs(a)) = W * H
           /\ Len(Colors(a)) = 3 * W * H
           /\ LineTerminator \notin Range(Glyphs(a))

\* ------------------------------------------------------------------ C8
\* C8: for every luminance L in 0..255 and every character map of length
\* K >= 1 the glyph index is floor(K*L/256) and lies in [0, K).
C8_LookupInBounds ==
    q_idx # None =>
        LET i == q_idx[1]
        IN /\ i \in 0..(q_len - 1)
           /\ i * 256 <= q_len * q_lum
           /\ q_len * q_lum < (i + 1) * 256

\* The brightest pixel under the longest map picks its last glyph.
C8_Witness == q_idx = Some(91) /\ q_len = 92 /\ q_lum = 255

\* ------------------------------------------------------------------ C9
\* C9: while the Pipeline is Paused and has a last_frame, every artifact it
\* emits is the quantization of that last_frame under the target resolution
\* and character map of the tick, and last_frame stays the same frame for
\* as long as the state stays Paused.
C9_PausedRedrawsLastFrame ==
    /\ [](pipe_state = "Paused" /\ pipe_pc = "emit" /\ string_info # None =>
            /\ last_frame # None
            /\ string_info[1].src = last_frame[1]
            /\ Glyphs(string_info[1]) = to_ascii(last_frame[1], target_resolution, char_map)
            /\ Colors(string_info[1]) = RgbRows(last_frame[1], target_resolution, new_lines, 0))
    /\ [][pipe_state = "Paused" /\ pipe_state' = "Paused" /\ last_frame # None =>
            last_frame' = last_frame]_vars

\* Paused, an artifact of the last frame on its way, and the video has more
\* frames to give.
C9_Witness ==
    /\ pipe_state = "Paused"
    /\ pipe_pc = "emit"
    /\ string_info # None
    /\ media.kind = "video"
    /\ media.pos < media.n
    /\ last_frame = Some(1)

\* ----------------------------------------------------------------- C10
\* C10: applying Resize(w, h) makes the target resolution (w div wmod, h);
\* every artifact emitted until the next Resize has (w div wmod) * h cells;
\* and applying the same Resize a second time changes nothing.
C10_Resize ==
    /\ [][Takes(ctrl_pipe, ctrl_pipe') /\ Head(ctrl_pipe).op = "Resize" =>
            target_resolution' = <<Head(ctrl_pipe).a \div w_mod, Head(ctrl_pipe).b>>]_vars
    /\ [](pipe_pc = "emit" /\ string_info # None /\ last_resize # None =>
            Len(Glyphs(string_info[1]))
                = (last_resize[1][1] \div w_mod) * last_resize[1][2])
    /\ [](\A s \in CtlSizes :
            LET once == apply_control(Resize(s[1], s[2]), pipe_state,
                                      target_resolution, char_map, w_mod)
            IN apply_control(Resize(s[1], s[2]), once[1], once[2], once[3], w_mod) = once)

\* An artifact is on its way after a Resize(2, 1) under a width modifier
\* of 2: it has one cell.
C10_Witness ==
    /\ w_mod = 2
    /\ last_resize = Some(<<2, 1>>)
    /\ pipe_pc = "emit"
    /\ string_info # None
    /\ Len(Glyphs(string_info[1])) = 1

\* ----------------------------------------------------------------- C11
\* C11: SetCharMap(k) selects the registered map number k mod N, N = 10
\* being the number of registered maps with the configured map first; so
\* SetCharMap(k) and SetCharMap(k + N) leave the same map selected; and no
\* step changes the list of registered maps.
C11_CharMapModN ==
    /\ [][Takes(ctrl_pipe, ctrl_pipe') /\ Head(ctrl_pipe).op = "SetCharMap" =>
            char_map' = Head(ctrl_pipe).a % 10]_vars
    /\ [](\A k \in MapNumbers :
            apply_control(SetCharMap(k), pipe_state, target_resolution, char_map, w_mod)
              = apply_control(SetCharMap(k + 10), pipe_state, target_resolution,
                              char_map, w_mod))
    /\ [](Len(char_maps) = 10 /\ char_maps[1] = CharMapLens[1])
    /\ [][char_maps' = char_maps]_vars

\* An artifact drawn with map 4 is on its way and SetCharMap(14) is the
\* next control to apply.
C11_Witness ==
    /\ pipe_pc = "emit"
    /\ string_info # None
    /\ string_info[1].cm = 4
    /\ char_map = 4
    /\ ctrl_pipe # <<>>
    /\ Head(ctrl_pipe) = SetCharMap(14)

\* ----------------------------------------------------------------- C12
\* The playback state the table of transitions gives after control op.
PlaybackAfter(op, st) ==
    CASE op = "PauseContinue" /\ st = "Running" -> "Paused"
      [] op = "PauseContinue" /\ st = "Paused" -> "Running"
      [] op = "Exit" -> "Stopped"
      [] OTHER -> st

\* C12: the Pipeline's playback state starts as Running; applying a
\* control changes it as the table says (PauseContinue swaps Running and
\* Paused and leaves Stopped, Exit gives Stopped, Resize, SetCharMap and
\* SetGrayscale leave it), and no other step changes it.
C12_PlaybackTransitions ==
    /\ pipe_state = "Running"
    /\ [][IF Takes(ctrl_pipe, ctrl_pipe')
          THEN pipe_state' = PlaybackAfter(Head(ctrl_pipe).op, pipe_state)
          ELSE pipe_state' = pipe_state]_vars

\* A PauseContinue and a Resize were applied, in either order: Paused.
C12_Witness ==
    /\ pipe_state = "Paused"
    /\ last_resize # None
    /\ env_left = 0
    /\ ctrl_pipe = <<>>

\* ----------------------------------------------------------------- C13
\* C13: an emit attempt of the Pipeline always completes, whether or not
\* anything is ever received from the frames channel; when the channel
\* cannot take the item the frame is dropped and the next iteration starts
\* with the control drain, so an Exit that is queued is applied.
C13_EmitNeverBlocks ==
    /\ (pipe_pc \in {"probe", "emit"}) ~> (pipe_pc \in {"ctl", "done"})
    /\ (Exit \in Range(ctrl_pipe)) ~> (pipe_state = "Stopped")
    /\ [][(pipe_pc \in {"probe", "emit"}) /\ pipe_pc' # pipe_pc /\ ~CanSend(frames_ch) =>
            (frames_ch' = frames_ch /\ pipe_pc' = "ctl")]_vars

\* The probe was never received, the artifact behind it was dropped, and
\* the Exit sent meanwhile was applied: the runner returned.
C13_Witness ==
    /\ pipe_pc = "done"
    /\ pipe_state = "Stopped"
    /\ frames_ch = <<None>>
    /\ last_frame # None

\* ----------------------------------------------------------------- C14
\* C14: when the receiving end of the frames channel is gone while the
\* Pipeline is in its loop, the Pipeline enters Stopped and its loop ends.
C14_ClosedFramesStops ==
    (TermGone /\ pipe_pc \in {"ctl", "probe", "emit"})
        ~> (pipe_state = "Stopped" /\ pipe_pc = "done")

\* ----------------------------------------------------------------- C15
\* The step in which the Pipeline, its probe taken, quantizes the frame of
\* the tick.
QuantizeStep == pipe_pc = "probe" /\ pipe_pc' = "emit"

\* C15: a tick whose target resolution has a zero dimension yields no
\* artifact, leaves the playback state as it is and is followed by the next
\* iteration; a tick whose target resolution is non-zero, after a Resize
\* for instance, yields an artifact whenever there is a frame to quantize.
C15_ZeroSizeDropsFrame ==
    /\ [][QuantizeStep =>
            /\ pipe_state' = pipe_state
            /\ string_info' # None <=>
                 /\ target_resolution[1] > 0
                 /\ target_resolution[2] > 0
                 /\ frame # None \/ (last_frame # None /\ needs_refresh)]_vars
    /\ [][pipe_pc = "emit" /\ pipe_pc' # "emit" /\ string_info = None =>
            (pipe_pc' = "ctl" /\ pipe_state' = pipe_state
               /\ frames_ch' \in {frames_ch, Append(frames_ch, None)})]_vars

\* Under a width modifier of 2 a Resize(1, 2) made the width 0: the frame
\* of this tick was pulled and gave no artifact, and the Pipeline is still
\* Running.
C15_Witness ==
    /\ w_mod = 2
    /\ target_resolution = <<0, 2>>
    /\ pipe_pc = "emit"
    /\ string_info = None
    /\ last_frame # None
    /\ pipe_state = "Running"

\* ----------------------------------------------------------------- C16
\* A worker is in its main loop.
TermInLoop == term_pc \in {"poll", "drain", "recv"}
BrokerInLoop == broker_pc = "loop"
PipeInLoop == pipe_pc \in {"ctl", "probe", "emit"}
AudioInLoop == audio_pc = "loop"

\* The workers main launches.
Launched ==
    {w \in {"Terminal", "Broker", "Pipeline", "Audio"} :
        \/ w = "Terminal" /\ term_pc # "absent"
        \/ w = "Broker" /\ broker_pc # "absent"
        \/ w = "Pipeline" /\ pipe_pc # "absent"
        \/ w = "Audio" /\ audio_pc # "absent"}

\* C16: the barrier has arity 3 without audio and 4 with it, and that many
\* workers are launched; no worker is in its main loop before all have
\* arrived; and every worker that comes out of its wait on the barrier goes
\* to its main loop (Audio by way of resume), without waiting again.
C16_BarrierOnce ==
    /\ [](num_threads = (IF has_audio THEN 4 ELSE 3))
    /\ [](Cardinality(Launched) = num_threads)
    /\ [](TermInLoop \/ BrokerInLoop \/ PipeInLoop \/ AudioInLoop => arrived = num_threads)
    /\ [][/\ term_pc = "wait" /\ term_pc' # "wait" => term_pc' = "poll"
          /\ broker_pc = "wait" /\ broker_pc' # "wait" => broker_pc' = "loop"
          /\ pipe_pc = "wait" /\ pipe_pc' # "wait" => pipe_pc' = "ctl"
          /\ audio_pc = "wait" /\ audio_pc' # "wait" => audio_pc' \in {"loop", "failed"}]_vars

\* ----------------------------------------------------------------- C17
\* The backend call the translation table gives for an AudioControl.
BackendCall(op) ==
    CASE op = "PauseContinue" -> "toggle_play"
      [] op = "MuteUnmute" -> "toggle_mute"
      [] op = "Replay" -> "rewind"
      [] op = "Exit" -> "stop"

C18_InitialResizeFirst ==
    /\ [][term_pc = "setup" /\ term_pc' = "wait" =>
            (ctrl_media = <<>> /\ ctrl_media' = <<Resize(TtyProbe[1], TtyProbe[2])>>)]_vars
    /\ [](\A i \in 1..Len(frames_ch) : frames_ch[i] # None => last_resize # None)

\* ----------------------------------------------------------------- C19
\* The command, state and grayscale flag the table gives for an event.
IsQuitKey(ev) ==
    /\ ev.kind = "Key"
    /\ \/ ev.code \in {"q", "Q", "Esc"}
       \/ ev.code \in {"c", "C"} /\ ev.ctrl
IsKey(ev, codes) == ev.kind = "Key" /\ ~IsQuitKey(ev) /\ ev.code \in codes
TableCommand(ev, st, gray) ==
    IF IsQuitKey(ev) THEN <<<<Exit>>, "Stopped", gray>>
    ELSE IF IsKey(ev, {" "})
         THEN <<<<PauseContinue>>, IF st = "Running" THEN "Paused" ELSE "Running", gray>>
    ELSE IF IsKey(ev, {"g", "G"}) THEN <<<<SetGrayscale(~gray)>>, st, ~gray>>
    ELSE IF IsKey(ev, {"0", "1", "2", "3", "4", "5", "6", "7", "8", "9"})
         THEN <<<<SetCharMap(CHOOSE d \in 0..9 : DigitChars[d + 1] = ev.code)>>, st, gray>>
    ELSE IF ev.kind = "Resize" THEN <<<<Resize(ev.w, ev.h)>>, st, gray>>
    ELSE <<<<>>, st, gray>>

\* C19: where the Terminal polls for events, handle_event gives every event
\* the command, state and grayscale flag of the table, one command at most,
\* and every event the Terminal handles sends and changes what the table
\* says for some event.
C19_EventTable ==
    /\ [](term_pc = "poll" =>
            \A ev \in Events :
               LET r == handle_event(ev, term_state, use_grayscale)
               IN /\ <<r[1], r[2], r[3]>> = TableCommand(ev, term_state, use_grayscale)
                  /\ Len(r[1]) <= 1)
    /\ [][events_left' # events_left =>
            \E ev \in Events :
               LET c == TableCommand(ev, term_state, use_grayscale)
               IN /\ ctrl_media' = ctrl_media \o c[1]
                  /\ term_state' = c[2]
                  /\ use_grayscale' = c[3]]_vars

\* The Terminal handled g and then Space: it is paused with the grayscale
\* flag set, and both commands went to the Broker.
C19_Witness ==
    /\ events_left = 0
    /\ term_state = "Paused"
    /\ use_grayscale
    /\ broker_pc = "wait"
    /\ ctrl_media = <<Resize(TtyProbe[1], TtyProbe[2]), SetGrayscale(TRUE), PauseContinue>>

\* ----------------------------------------------------------------- C20
\* C20: a frame pulled from the source while Running and quantized for
\* emission has a larger index, in decode order, than the frame emitted
\* before it, for every source variant and with or without frame skipping.
C20_DecodeOrder ==
    [][QuantizeStep /\ pipe_state = "Running" /\ frame # None /\ last_frame # None =>
         frame[1] > last_frame[1]]_vars

\* ----------------------------------------------------------------- C21
\* The runner pulls a frame from the source: get_current_frame in Running.
PullStep == pipe_pc = "ctl" /\ pipe_pc' = "probe" /\ pipe_state = "Running"

\* C21: with no skipping, the k-th next call on an animated sequence of
\* n >= 1 frames yields the k-th frame of the list for k <= n and reports
\* the end afterwards (with no skipping the cursor counts the frames
\* yielded so far).
C21_AnimatedYieldsAll ==
    [][PullStep /\ media.kind = "anim" /\ ~allow_frame_skip =>
         frame' = IF media.pos < media.n THEN Some(media.pos + 1) ELSE None]_vars

\* ----------------------------------------------------------------- C22
\* C22: an Exit is on ctrl_pipe or ctrl_audio, and the Pipeline or the Audio
\* worker is stopped, only after the Terminal sent Exit (which it does as it
\* sets its own state to Stopped); the Broker queues an Exit downstream only
\* in the step that receives an Exit; and the Pipeline leaves Running only
\* by applying a PauseContinue or an Exit, the end of the media included.
C22_OnlyTerminalExits ==
    /\ [](\/ Exit \in Range(ctrl_pipe) \cup Range(ctrl_audio)
          \/ pipe_state = "Stopped" \/ pipe_pc = "done"
          \/ audio_state = "Stopped" \/ audio_pc = "done"
          => term_state = "Stopped")
    /\ [][\/ Len(SelectSeq(ctrl_pipe', LAMBDA c : c = Exit))
                > Len(SelectSeq(ctrl_pipe, LAMBDA c : c = Exit))
          \/ Len(SelectSeq(ctrl_audio', LAMBDA c : c = Exit))
                > Len(SelectSeq(ctrl_audio, LAMBDA c : c = Exit))
          => Takes(ctrl_media, ctrl_media') /\ Head(ctrl_media) = Exit]_vars
    /\ [][pipe_state = "Running" /\ pipe_state' # "Running" =>
            /\ Takes(ctrl_pipe, ctrl_pipe')
            /\ Head(ctrl_pipe) \in {PauseContinue, Exit}]_vars
    /\ [][PullStep /\ frame' = None => pipe_state' = "Running"]_vars

\* The source is at its end: the pull gave no frame after the last frame was
\* emitted, and the Pipeline is Running with no Exit sent.
C22_Witness ==
    /\ pipe_pc = "probe"
    /\ pipe_state = "Running"
    /\ frame = None
    /\ last_frame = Some(NumFrames)
    /\ media.pos = media.n
    /\ term_state = "Running"

\* ----------------------------------------------------------------- C23
\* The commands of a sequence of MediaControls that are bound for the
\* Pipeline, and for the Audio worker, in their order.
RECURSIVE PipelineBound(_)
PipelineBound(s) ==
    IF s = <<>> THEN <<>> ELSE FanoutPipeline(Head(s)) \o PipelineBound(Tail(s))
RECURSIVE AudioBound(_)
AudioBound(s) ==
    IF s = <<>> \/ ~has_audio THEN <<>> ELSE FanoutAudio(Head(s)) \o AudioBound(Tail(s))

\* The commands sent by the Terminal and not yet applied by a worker: the
\* ones on the worker's channel followed by the ones still before the Broker.
PendingPipe == ctrl_pipe \o PipelineBound(ctrl_media)
PendingAudio == ctrl_audio \o AudioBound(ctrl_media)

\* C23: on each path the pending commands form one queue end to end: a step
\* either leaves it as it is (the Broker forwarding is such a step), or the
\* Terminal appends the command it sends at its end, or the worker takes the
\* command at its head from its channel and applies it.  So each worker
\* applies, in order and once each, a prefix of what the Terminal sent for it.
C23_OrderEndToEnd ==
    /\ [][~PipeGone' =>
            \/ PendingPipe' = PendingPipe
            \/ /\ term_pc \in {"setup", "poll"}
               /\ ctrl_pipe' = ctrl_pipe
               /\ \E c \in MediaControl :
                    /\ ctrl_media' = Append(ctrl_media, c)
                    /\ PendingPipe' = PendingPipe \o FanoutPipeline(c)
            \/ /\ Takes(ctrl_pipe, ctrl_pipe')
               /\ ctrl_media' = ctrl_media
               /\ <<pipe_state', target_resolution', char_map'>>
                     = apply_control(Head(PendingPipe), pipe_state, target_resolution,
                                     char_map, w_mod)]_vars
    /\ [][~AudioGone' =>
            \/ PendingAudio' = PendingAudio
            \/ /\ term_pc \in {"setup", "poll"}
               /\ ctrl_audio' = ctrl_audio
               /\ \E c \in MediaControl :
                    /\ ctrl_media' = Append(ctrl_media, c)
                    /\ PendingAudio' = PendingAudio \o FanoutAudio(c)
            \/ /\ Takes(ctrl_audio, ctrl_audio')
               /\ ctrl_media' = ctrl_media
               /\ <<audio_state', player'>>
                     = audio_control(Head(PendingAudio), audio_state, player)]_vars

\* The Terminal sent Resize, PauseContinue and Exit; the Pipeline and the
\* Audio worker have applied all that was bound for them and returned.
C23_Witness ==
    /\ has_audio
    /\ term_pc = "done"
    /\ ctrl_media = <<>>
    /\ pipe_pc = "done"
    /\ pipe_state = "Stopped"
    /\ last_resize = Some(TtyProbe)
    /\ audio_pc = "done"
    /\ player.paused
    /\ player.stopped

\* ----------------------------------------------------------------- C24
\* The frame rate the precedence rule gives: the configured one, else the
\* probed one, else 30.
ClaimedFps ==
    IF fps_arg # None THEN fps_arg[1]
    ELSE IF fps_probed # None THEN fps_probed[1] ELSE <<30, 1>>

\* C24: the Runner is initialised with the frame rate of the precedence
\* rule.
C24_FpsPrecedence ==
    [][gate_pc = "init" /\ gate_pc' = "run" => fps' = Some(ClaimedFps)]_vars

\* ----------------------------------------------------------------- C30
\* C30: with the period of 1/fps seconds, that is TicksPerSecond * den / num
\* ticks for fps = num/den, a call of the gate passes exactly when the time
\* elapsed since the scheduled instant is at least one period; then
\* frames_to_skip = floor(elapsed / period) - 1 >= 0 and the scheduled
\* instant advances by frames_to_skip + 1 periods, which leaves it not in
\* the future and less than one period in the past; a call that does not
\* pass leaves the scheduled instant alone; and every call returns.
C30_FrameTimeGate ==
    /\ [](gate_pc # "panicked")
    /\ [][gate_pc = "run" /\ (gate' # gate \/ time_count' # time_count) =>
            LET num == fps[1][1]
                den == fps[1][2]
                elapsed == now - time_count
                passes == elapsed * num >= TicksPerSecond * den
                skip == (elapsed * num) \div (TicksPerSecond * den) - 1
            IN /\ gate' # None
               /\ gate'[1][1] = passes
               /\ passes =>
                    /\ gate'[1][2] = skip
                    /\ skip >= 0
                    /\ time_count' * num = time_count * num + (skip + 1) * TicksPerSecond * den
                    /\ time_count' <= now
                    /\ (now - time_count') * num < TicksPerSecond * den
               /\ ~passes => time_count' = time_count]_vars

\* ----------------------------------------------------------------- C25
\* C25: when the Terminal has terminated, with an error or without, the TTY
\* is restored: it is out of the alternate screen and of raw mode.
C25_CleanupOnFailure == [](Terminated(term_pc) => ~tty_raw)

\* ----------------------------------------------------------------- C26
\* C26: when the Terminal has terminated without sending Exit while the
\* Broker is in its loop, the Broker sends Exit to the Pipeline, and to the
\* Audio worker when there is one, and terminates.
C26_ClosedControlsIsExit ==
    (TermGone /\ term_state # "Stopped" /\ broker_pc = "loop")
        ~> (broker_pc = "done" /\ pipe_state = "Stopped")

\* ----------------------------------------------------------------- C27
\* C27: the step in which a backend call fails ends the Audio worker and
\* touches nothing of the Broker or the Pipeline; afterwards the Broker
\* still forwards each command it receives to the Pipeline and sends
\* nothing to the audio channel; and once the barrier has released and the
\* Terminal has sent Exit, the Pipeline and the Broker stop.
C27_AudioFailureIsolated ==
    /\ [][audio_pc # "failed" /\ audio_pc' = "failed" =>
            UNCHANGED <<brokerVars, pipeVars, frames_ch, ctrl_media, ctrl_pipe>>]_vars
    /\ [][audio_pc = "failed" /\ Takes(ctrl_media, ctrl_media') =>
            /\ ctrl_pipe' = ctrl_pipe \o FanoutPipeline(Head(ctrl_media))
            /\ ctrl_audio' = ctrl_audio]_vars
    /\ (audio_pc = "failed" /\ arrived = num_threads /\ term_state = "Stopped")
          ~> (pipe_pc = "done" /\ broker_pc = "done")

\* ----------------------------------------------------------------- C28
\* C28: Replay is a MediaControl; the Broker forwards it to the audio
\* channel as Replay and sends nothing to the Pipeline for it; and the Audio
\* worker answers Replay by calling rewind.
C28_ReplayForwarded ==
    /\ Replay \in MediaControl
    /\ BrokerToAudio(Replay, TRUE) = <<Replay>>
    /\ BrokerToPipeline(Replay) = <<>>
    /\ audio_control(Replay, audio_state, player)[2].call = <<"rewind">>

\* ----------------------------------------------------------------- C29
\* C29: a frame pulled from the source in state Running is last_frame when
\* the runner is done with it, whether the Terminal took the probe or the
\* frame was dropped.
C29_PulledFrameIsLastFrame ==
    [][pipe_pc = "probe" /\ pipe_pc' # "probe" /\ pipe_state = "Running" /\ frame # None =>
         last_frame' = frame]_vars

\* ----------------------------------------------------------------- C31
\* The last position of a source, and a position advanced by k frames, no
\* further than the last.
EndPos(m) == IF m.kind = "anim" THEN m.n - 1 ELSE m.n
Advanced(m, k) == IF m.pos + k <= EndPos(m) THEN m.pos + k ELSE EndPos(m)

\* C31: skip_frames(k) advances a video or animated source by exactly k
\* frames (as far as it has frames); an iteration whose gate passes advances
\* the source by the frames skipped, when skipping is allowed, plus the one
\* frame pulled in state Running, so that with skipping disabled a passing
\* tick in Running advances it by exactly one frame; and a skipped frame is
\* never the frame of the iteration.
C31_SkipExactly ==
    /\ [](media.kind # "image" =>
            \A k \in 1..MaxSkip : skip_frames(media, k).pos = Advanced(media, k))
    /\ [][pipe_pc = "ctl" /\ pipe_pc' = "probe" =>
            \E skip \in 0..MaxSkip :
               LET k == (IF allow_frame_skip THEN skip ELSE 0)
                          + (IF pipe_state = "Running" THEN 1 ELSE 0)
               IN /\ media'.pos = Advanced(media, k)
                  /\ pipe_state = "Running" /\ frame' # None =>
                        frame'[1] = (IF media.kind = "anim" THEN media'.pos + 1
                                     ELSE media'.pos)]_vars

\* ----------------------------------------------------------------- C32
\* C32: an animated sequence that is at its end (next reports the end and
\* leaves the cursor where it is) stays there: whatever skip_frames call the
\* gate makes first, the next call of an iteration reports the end again.
C32_AnimatedEndIsFinal ==
    [][PullStep /\ media.kind = "anim" /\ media_next(media)[1] = None => frame' = None]_vars

\* ----------------------------------------------------------------- C33
\* C33: no step taken while the Pipeline is Paused changes the frame source,
\* so the frame pulled first after resuming directly follows the last one
\* pulled before the pause.
C33_PausedSourceUntouched == [][pipe_state = "Paused" => media' = media]_vars

\* ----------------------------------------------------------------- C34
\* A channel on which an Exit, if there is one, is the last message.
ExitLast(ch) == \A i \in 1..Len(ch) : ch[i] = Exit => i = Len(ch)

\* A step that adds nothing to the channel: it is left alone or its head is
\* taken.
NoAppend(ch, chNext) == chNext = ch \/ Takes(ch, chNext)

\* C34: Exit is the last message on every control channel.  Wherever an Exit
\* is queued nothing is queued behind it; the Terminal, which is Stopped from
\* the step that sends Exit on, adds nothing to ctrl_media afterwards; and
\* the Broker, whose running flag is false from the step that forwards Exit
\* on, adds nothing to ctrl_pipe or ctrl_audio afterwards.
C34_ExitIsLast ==
    /\ [](ExitLast(ctrl_media) /\ ExitLast(ctrl_pipe) /\ ExitLast(ctrl_audio))
    /\ [][~NoAppend(ctrl_media, ctrl_media') /\ ctrl_media'[Len(ctrl_media')] = Exit =>
            term_state' = "Stopped"]_vars
    /\ [][term_state = "Stopped" =>
            term_state' = "Stopped" /\ NoAppend(ctrl_media, ctrl_media')]_vars
    /\ [][~NoAppend(ctrl_pipe, ctrl_pipe') /\ ctrl_pipe'[Len(ctrl_pipe')] = Exit =>
            ~running']_vars
    /\ [][~running =>
            /\ ~running'
            /\ NoAppend(ctrl_pipe, ctrl_pipe')
            /\ NoAppend(ctrl_audio, ctrl_audio')]_vars

\* The Broker has forwarded Exit behind an earlier command on both downstream
\* channels, and the Terminal has returned.
C34_Witness ==
    /\ ~running
    /\ term_pc = "done"
    /\ Len(ctrl_pipe) >= 2 /\ ctrl_pipe[Len(ctrl_pipe)] = Exit
    /\ Len(ctrl_audio) >= 2 /\ ctrl_audio[Len(ctrl_audio)] = Exit

\* ----------------------------------------------------------------- C35
\* Every control channel is empty, no worker has failed and the Terminal has
\* not issued Exit.
Settled ==
    /\ ctrl_media = <<>> /\ ctrl_pipe = <<>> /\ ctrl_audio = <<>>
    /\ term_pc # "failed" /\ audio_pc # "failed"
    /\ term_state # "Stopped"

SetupFailed == arrived < num_threads /\ (term_pc = "failed" \/ audio_pc = "failed")

\* No worker is inside the first round of the start barrier.
NoneAtBarrier ==
    term_pc # "wait" /\ broker_pc # "wait" /\ pipe_pc # "wait" /\ audio_pc # "wait"

\* C36: when a worker's setup fails before the start barrier, the workers
\* that wait on the barrier are eventually released or terminated.
C36_SetupFailureReleasesBarrier == SetupFailed ~> NoneAtBarrier

\* ----------------------------------------------------------------- C37
\* The whole program as main launches it on a still image.
InitStill ==
    /\ InitData
    /\ GateIdle
    /\ has_audio \in BOOLEAN
    /\ broker_run_waits \in BOOLEAN
    /\ ctrl_audio = <<>>
    /\ allow_frame_skip = TRUE
    /\ w_mod = 1
    /\ new_lines = FALSE
    /\ media = MediaInit("image")
    /\ target_resolution = DEFAULT_TERMINAL_SIZE
    /\ ctrl_media = <<>>
    /\ q_len = 0
    /\ q_lum = 0
    /\ env_left = 0
    /\ arrived = 2
    /\ term_pc = "setup"
    /\ broker_pc = "wait"
    /\ pipe_pc = "wait"
    /\ audio_pc = IF has_audio THEN "new" ELSE "absent"

SpecStill == InitStill /\ [][Next]_vars

\* Each thread is scheduled fairly by the operating system.
FairSpecStill ==
    /\ SpecStill
    /\ WF_vars(TermNext) /\ WF_vars(BrokerNext) /\ WF_vars(PipeNext) /\ WF_vars(AudioNext)

\* The Terminal has stopped polling the frames channel, or never starts: it
\* failed or returned, the user pressed a key or resized the window, or the
\* audio backend could not be constructed.
PollingEnded ==
    \/ TermGone
    \/ term_state = "Stopped"
    \/ events_left < MaxEvents
    \/ audio_pc = "failed"

\* C37: with a still image, a Terminal that keeps polling and no user input,
\* the image's artifact is eventually on the frames channel for the Terminal
\* to take and draw.
C37_StillImageDrawn == <>Draws(frames_ch) \/ <>PollingEnded

\* ----------------------------------------------------------------- C38
\* The Pipeline has just drained the one control sent so far, a Resize or a
\* SetCharMap that changed the settings, while the source is exhausted,
\* last_frame exists and the new size can be quantized.
SettingApplied ==
    /\ pipe_pc = "ctl" /\ ctrl_pipe = <<>> /\ needs_refresh
    /\ env_left = MaxEvents - 1
    /\ target_resolution # InitRes \/ char_map # 0
    /\ pipe_state = "Running"
    /\ last_frame # None
    /\ media_next(media)[1] = None
    /\ process_frame(last_frame[1], target_resolution, char_map, new_lines) # None

\* The Pipeline is about to try_send last_frame quantized under the current
\* settings.
RefreshAttempt ==
    /\ pipe_pc = "emit"
    /\ last_frame # None
    /\ string_info # None
    /\ string_info = process_frame(last_frame[1], target_resolution, char_map, new_lines)

\* C38: with the source exhausted and last_frame present, a Resize or
\* SetCharMap the Pipeline has applied is eventually followed by an emit
\* attempt of last_frame under the new settings, unless another control is
\* sent first.
C38_RefreshAfterSetting == SettingApplied ~> (RefreshAttempt \/ env_left < MaxEvents - 1)

\* ----------------------------------------------------------------- C39
\* The Resize commands of resize events that the Pipeline has yet to apply,
\* oldest first.
PendingResizes ==
    SelectSeq(ctrl_pipe \o ctrl_media,
              LAMBDA c : c.op = "Resize" /\ <<c.a, c.b>> \in TtySizes)

\* C39: a draw that follows a handled resize event (its Resize is sent, the
\* drain is over, the Pipeline has yet to apply it) is not of an artifact
\* quantized for the size the Terminal had before, the one probed at start.
C39_NoStaleSizeDrawn ==
    [][TermDrawStep /\ PendingResizes # <<>> =>
         LET a == Head(frames_ch)[1]
         IN <<a.w, a.h>> # resize_pipeline(TtyProbe[1], TtyProbe[2], w_mod)]_vars

\* ----------------------------------------------------------------- C40
\* The animated FrameIterator alone: open_gif keeps the frames whose
\* RgbaImage::from_raw succeeds, any number of them from none on, and its
\* owner calls next, skip_frames and reset in any order.
MaxAnimFrames == 3
MaxCalls == 8

InitAnim ==
    /\ InitData
    /\ GateIdle
    /\ has_audio = FALSE
    /\ broker_run_waits = FALSE
    /\ ctrl_audio = <<>>
    /\ allow_frame_skip = TRUE
    /\ w_mod = 1
    /\ new_lines = FALSE
    /\ media \in {[kind |-> "anim", pos |-> 0, n |-> n] : n \in 0..MaxAnimFrames}
    /\ target_resolution = InitRes
    /\ ctrl_media = <<>>
    /\ arrived = 0
    /\ term_pc = "absent"
    /\ broker_pc = "absent"
    /\ pipe_pc = "iter"
    /\ audio_pc = "absent"
    /\ q_len = 0
    /\ q_lum = 0
    /\ env_left = MaxCalls

\* What a call on the iterator leaves alone.
AnimRest ==
    <<cfgVars, arrived, chanVars, termVars, brokerVars, pipe_state, target_resolution,
      char_map, last_frame, needs_refresh, string_info, last_resize, audioVars,
      q_len, q_lum, q_idx, gateVars>>

\* FrameIterator::next on an animated source.  With no frames,
\* `frames.len() - 1` underflows: a build with overflow checks panics; one
\* without wraps to usize::MAX, which no cursor equals, so the cursor is
\* incremented and frames.get(cursor) is None.
AnimNext ==
    /\ pipe_pc = "iter"
    /\ env_left > 0
    /\ env_left' = env_left - 1
    /\ IF media.n = 0
       THEN \/ pipe_pc' = "panicked" /\ UNCHANGED <<media, frame>>
            \/ /\ media' = [media EXCEPT !.pos = media.pos + 1]
               /\ frame' = None
               /\ UNCHANGED pipe_pc
       ELSE /\ frame' = media_next(media)[1]
            /\ media' = media_next(media)[2]
            /\ UNCHANGED pipe_pc
    /\ UNCHANGED AnimRest

\* FrameIterator::skip_frames(k) on an animated source.  With no frames,
\* `% frames.len()` is a remainder by zero, which panics in every build.
AnimSkip ==
    /\ pipe_pc = "iter"
    /\ env_left > 0
    /\ env_left' = env_left - 1
    /\ \E k \in 0..MaxSkip :
         IF media.n = 0
         THEN pipe_pc' = "panicked" /\ UNCHANGED media
         ELSE media' = skip_frames(media, k) /\ UNCHANGED pipe_pc
    /\ UNCHANGED <<frame, AnimRest>>

\* FrameIterator::reset on an animated source: current_frame = 0.
AnimReset ==
    /\ pipe_pc = "iter"
    /\ env_left > 0
    /\ env_left' = env_left - 1
    /\ media' = [media EXCEPT !.pos = 0]
    /\ UNCHANGED <<pipe_pc, frame, AnimRest>>

NextAnim == AnimNext \/ AnimSkip \/ AnimReset

SpecAnim == InitAnim /\ [][NextAnim]_vars

\* C40: every call of next, skip_frames or reset on an animated source is
\* well defined (it does not panic) and leaves the cursor a valid index into
\* the frame list, whatever list open_gif produced.
C40_CursorValid ==
    [][pipe_pc = "iter" => pipe_pc' # "panicked" /\ media'.pos < media'.n]_vars

====
